---- MODULE Spec2Model ----
(***************************************************************************)
(* FutureForms: the DatabaseConnection facade (public/DatabaseConnection)  *)
(* over the REST session engine (database/Connection).  The facade is      *)
(* translated from its source; the engine it forwards to is described      *)
(* only by the specification and is modelled from it.                      *)
(*                                                                         *)
(* Every asynchronous operation is two steps: the facade call, which       *)
(* checks the scope policy and either returns at once or dispatches one    *)
(* transport call, and the completion of that transport call.              *)
(*                                                                         *)
(* The basic HTTP Connection (public/FieldProperties, class Connection)    *)
(* is a machine of its own: one step per stretch of invoke between awaits. *)
(***************************************************************************)
EXTENDS Integers, FiniteSets, Sequences, TLC

VARIABLES
    scope,          \* Session.scope
    connected,      \* Session.connected
    handle,         \* Session.handle (NoHandle when absent)
    lockCount,      \* Session.lockCount
    lastActivityAt, \* Session.lastActivityAt
    maxlocks,       \* the MAXLOCKS ceiling applied to the Session at its creation
    limits,         \* the three timeouts applied to the Session at its creation
    MAXLOCKS,       \* process-wide limit RestConnection.MAXLOCKS
    timeouts,       \* process-wide RestConnection.TRXTIMEOUT, LOCKINSPECT, CONNTIMEOUT
    supervisor,     \* the Supervisor's periodic timer is running
    sweep,          \* the sweep whose transport call is in flight ("idle" if none)
    now,            \* the clock
    timer,          \* time since the Supervisor's timer last fired
    orphan,         \* a caller operation still in flight when disconnect() was called
    pending,        \* the caller operation whose transport call is in flight
    result,         \* what the last caller operation returned
    acquired,       \* history: successful lock-acquiring calls since connect/commit/rollback
    adjusted,       \* history: lockCount was corrected by a sweep or assigned since then
    lost,           \* history: an inspection sweep failed and no connect() succeeded since
    skippedAt,      \* history: when a timer tick was last skipped (-1 if never)
    rejected,       \* history: the last assignment of a limit was refused
    active,         \* which of two DatabaseConnection instances the state above is of
    peer,           \* the Session, Supervisor and caller state of the other instance
    attributes,     \* conn$'s attribute map, as a set of <<name, value>>
    clientinfo,     \* conn$'s client-info map, as a set of <<name, value>>
    wanted,         \* history: the two maps as the caller's edits make them
    sent,           \* payload of the last outgoing request of a caller operation
    response,       \* body the backend returned to the last data operation
    store,          \* backend: number of statements applied
    reported,       \* history: what the last completed sweep was answered
    success,        \* HTTP Connection: its success$ flag
    requests,       \* HTTP Connection: the calls of invoke, each with its locals
    flight,         \* FlightRecorder: the endpoints added, in order
    form,           \* Form: its backing, view form, canvas, page, blocks, listeners
    closing,        \* Form: the call of close() under way or last returned
    block,          \* Block: its name, its model block, the event transaction on it
    props,          \* FieldProperties: the properties and the last setter called
    listener        \* FormEvents: what Block.addEventListener last handed over

session == <<scope, connected, handle, lockCount, lastActivityAt, maxlocks, limits>>
history == <<acquired, adjusted>>
config == <<MAXLOCKS, timeouts, rejected>>
aux == <<timer, orphan, lost, skippedAt>>
instances == <<active, peer>>
maps == <<attributes, clientinfo, wanted>>
backend == <<response, store>>
\* What the Session engine of one connection does not touch.
http == <<success, requests, flight>>
widgets == <<block, props, listener>>
ui == <<form, closing, widgets>>
world == <<instances, maps, backend, reported, http, ui>>
vars == <<scope, connected, handle, lockCount, lastActivityAt, maxlocks, limits, MAXLOCKS,
          timeouts, supervisor, sweep, now, timer, orphan, pending, result, acquired,
          adjusted, lost, skippedAt, rejected, active, peer, attributes, clientinfo,
          wanted, sent, response, store, reported, success, requests,
          flight, form, closing, block, props, listener>>

(* ------------------------------ bounds -------------------------------- *)
MaxLimit == 2       \* largest value MAXLOCKS is set to
MaxHandle == 1      \* number of distinct session tokens the backend hands out
MaxTime == 3        \* the clock stops here
TRXTIMEOUT == 1     \* idle time after which a transaction is rolled back
CONNTIMEOUT == 2    \* idle time after which the session is disconnected
LOCKINSPECT == 1    \* time between two ticks of the Supervisor's timer
MaxStmts == 3       \* longest list of statements or steps in one request
MaxStore == 4       \* the backend applies no more statements than this
MaxRequests == 2    \* calls of the HTTP Connection's invoke that may be in flight
MaxListeners == 2   \* event listeners registered on a form
MaxRows == 2        \* records the model block of a Block holds
MaxFilters == 2     \* event filters in an array handed to addEventListener

(* ----------------------------- data model ----------------------------- *)
ConnectionScope == {"Stateless", "Stateful", "Transactional"}
DataOps == {"insert", "update", "delete", "script", "batch"}
NoHandle == 0
Handles == 1..MaxHandle
NoOp == [call |-> "none", kind |-> "none", seen |-> 0]
NoResult == [call |-> "none", status |-> "none", transport |-> "none", calls |-> 0,
             after |-> FALSE, again |-> FALSE]

\* After call c: disconnect() has returned and connect() was not called since.
After(c) == IF c = "disconnect" THEN TRUE ELSE IF c = "connect" THEN FALSE ELSE result.after

\* One transport call is dispatched for facade call c, engine operation k; seen
\* is the lock count at that moment.
DispatchWith(c, k, items) ==
    /\ sent' = [attributes |-> attributes, clientinfo |-> clientinfo, items |-> items]
    /\ pending' = [call |-> c, kind |-> k, seen |-> lockCount]
    /\ result' = [NoResult EXCEPT !.after = (c # "connect" /\ result.after)]

Dispatch(c, k) == DispatchWith(c, k, <<>>)

\* Facade call c returns status st; o is what its transport call answered
\* ("none" when no transport call was made); again: it is a disconnect() that
\* follows a disconnect() which had returned.
Return(c, st, o) ==
    /\ UNCHANGED sent
    /\ pending' = NoOp
    /\ result' = [call |-> c, status |-> st, transport |-> o,
                  calls |-> IF o = "none" THEN 0 ELSE 1, after |-> After(c),
                  again |-> (c = "disconnect" /\ result.call = "disconnect")]

\* History of lock acquisition as the caller sees it: call c returned st.
Counted(c, st) ==
    IF st = "ok" /\ c = "connect"
    THEN acquired' = 0 /\ adjusted' = FALSE
    ELSE IF st = "ok" /\ c \in {"commit", "rollback"}
              /\ connected /\ scope = "Transactional"
    THEN acquired' = 0 /\ adjusted' = FALSE
    ELSE IF st = "ok" /\ c \in DataOps /\ connected /\ scope = "Transactional"
    THEN acquired' = (IF acquired <= maxlocks THEN acquired + 1 ELSE acquired)
         /\ UNCHANGED adjusted
    ELSE UNCHANGED history

\* The Session is cleared: disconnected, no handle, no locks, Supervisor stopped.
Cleared ==
    /\ connected' = FALSE
    /\ handle' = NoHandle
    /\ lockCount' = 0
    /\ supervisor' = FALSE
    /\ UNCHANGED <<scope, lastActivityAt, maxlocks, limits>>

\* A sweep still in flight belongs to the session that ended: its answer is discarded.
Discard == sweep' = IF sweep = "idle" THEN "idle" ELSE "stale"

ClearSession == Cleared /\ Discard

\* The per-connection state of an instance just constructed with scope s.
Fresh(s) ==
    [scope |-> s, connected |-> FALSE, handle |-> NoHandle, lockCount |-> 0,
     lastActivityAt |-> 0, supervisor |-> FALSE, sweep |-> "idle", pending |-> NoOp,
     result |-> NoResult, acquired |-> 0, adjusted |-> FALSE, lost |-> FALSE]

\* A call of invoke: where it stands, its raw argument, whether its fetch
\* rejected, its locals endpoint, http and body, and how many entries it had
\* added to the FlightRecorder when it called fetch.
Requests == 1..MaxRequests
NoRequest == [pc |-> "idle", raw |-> FALSE, rejected |-> FALSE, http |-> "none",
              body |-> "null", endpoint |-> <<>>, logged |-> 0]

\* URLs as strings of characters: the base of the connection and the targets
\* passed to get/post/patch (<<>>: no url given).
Ping == <<"p", "i", "n", "g">>
Base == <<"/">>
Urls == {<<>>, Ping, Ping \o <<"s">>, <<"s", "h", "i", "p">> \o Ping, <<"r", "o", "w">>}

\* s.endsWith(t)
EndsWith(s, t) ==
    /\ Len(s) >= Len(t)
    /\ SubSeq(s, Len(s) - Len(t) + 1, Len(s)) = t

\* new URL(base), then new URL(url, endpoint) if a url is given: a target
\* relative to the base.
Endpoint(url) == IF url = <<>> THEN Base ELSE Base \o url

\* A form not yet constructed, and no call of close().
NoForm == [backing |-> FALSE, view |-> FALSE, canvas |-> "none", page |-> "null",
           blocks |-> "null", listeners |-> 0, parent |-> "none", valid |-> TRUE,
           message |-> "none", turn |-> FALSE]
NoClose == [pc |-> "idle", force |-> FALSE, raised |-> {}, cleared |-> "none",
            returned |-> "none",
            before |-> [canvas |-> "none", parent |-> "none", backing |-> FALSE]]

\* null for a record, and a Block not yet constructed.
NoRecord == 0
NoBlock == [name |-> "none", row |-> 1, transaction |-> "none", record |-> NoRecord,
            offset |-> <<>>, returned |-> <<>>, message |-> <<>>, turn |-> FALSE]

\* A FieldProperties object before its construction, no setter called yet.
NoProperties == [made |-> FALSE, tag |-> "input", type |-> "string", derived |-> FALSE,
                 enabled |-> TRUE, readonly |-> FALSE, call |-> "none",
                 returned |-> "none", message |-> <<>>, turn |-> FALSE]

\* No listener registered: nothing was handed to FormEvents.addListener.
NoListener == [registered |-> 0, kind |-> "none",
               own |-> [type |-> "unset", block |-> "unset"], elements |-> <<>>]

NoPayload == [attributes |-> {}, clientinfo |-> {}, items |-> <<>>]

Started ==
    /\ scope \in ConnectionScope
    /\ connected = FALSE
    /\ handle = NoHandle
    /\ lockCount = 0
    /\ lastActivityAt = 0
    /\ MAXLOCKS = MaxLimit
    /\ timeouts = [TRXTIMEOUT |-> TRXTIMEOUT, LOCKINSPECT |-> LOCKINSPECT,
                   CONNTIMEOUT |-> CONNTIMEOUT]
    /\ maxlocks = MAXLOCKS
    /\ limits = timeouts
    /\ supervisor = FALSE
    /\ sweep = "idle"
    /\ now = 0
    /\ pending = NoOp
    /\ result = NoResult
    /\ acquired = 0
    /\ adjusted = FALSE
    /\ lost = FALSE
    /\ skippedAt = -1
    /\ rejected = FALSE
    /\ timer = 0
    /\ orphan = "none"
    /\ active = 1
    /\ attributes = {}
    /\ clientinfo = {}
    /\ wanted = [attributes |-> {}, clientinfo |-> {}]
    /\ sent = NoPayload
    /\ response = <<>>
    /\ store = 0
    /\ reported = [sweep |-> "none", outcome |-> "none", held |-> 0]
    /\ success = TRUE
    /\ requests = [r \in Requests |-> NoRequest]
    /\ flight = <<>>
    /\ form = NoForm
    /\ closing = NoClose
    /\ block = NoBlock
    /\ props = NoProperties
    /\ listener = NoListener

\* One connection; the second instance is constructed and never used.
Init == Started /\ peer = Fresh("Stateless")

\* Two connections, each constructed with a scope of its own.
InitTwo == Started /\ \E s \in ConnectionScope : peer = Fresh(s)

(* ------------------- session engine: caller operations ---------------- *)
\* connect: always one exchange with the backend.
RestConnect(c) ==
    /\ pending = NoOp
    /\ Dispatch(c, "connect")
    /\ UNCHANGED <<session, config, supervisor, sweep, now, history, aux>>
    /\ UNCHANGED world

\* disconnect: stops the Supervisor and clears the Session at once; the backend
\* is told (best effort) when there was a session handle.
RestDisconnect(c) ==
    /\ pending = NoOp
    /\ ClearSession
    /\ IF handle # NoHandle
       THEN Dispatch(c, "disconnect") /\ UNCHANGED history
       ELSE Return(c, "ok", "none") /\ Counted(c, "ok")
    /\ UNCHANGED <<config, now, aux>>
    /\ UNCHANGED world

\* A policy check against the process-wide MAXLOCKS as it is now (mutant).
RestData_reads_MAXLOCKS(c, k) ==
    /\ pending = NoOp
    /\ IF ~connected
       THEN Return(c, "NotConnected", "none") /\ Counted(c, "NotConnected")
       ELSE IF scope = "Transactional" /\ lockCount + 1 > MAXLOCKS
       THEN Return(c, "LockLimitExceeded", "none") /\ Counted(c, "LockLimitExceeded")
       ELSE Dispatch(c, k) /\ UNCHANGED history
    /\ UNCHANGED <<session, config, supervisor, sweep, now, aux>>
    /\ UNCHANGED world

\* insert/update/delete/script/batch: scope policy, then exactly one request,
\* which carries the statements or steps in items.
RestPayload(c, k, items) ==
    /\ pending = NoOp
    /\ store + Len(items) <= MaxStore
    /\ IF ~connected
       THEN Return(c, "NotConnected", "none") /\ Counted(c, "NotConnected")
       ELSE IF scope = "Transactional" /\ lockCount + 1 > maxlocks
       THEN Return(c, "LockLimitExceeded", "none") /\ Counted(c, "LockLimitExceeded")
       ELSE DispatchWith(c, k, items) /\ UNCHANGED history
    /\ UNCHANGED <<session, config, supervisor, sweep, now, aux>>
    /\ UNCHANGED world

RestData(c, k) == RestPayload(c, k, <<>>)

\* A no-op commit/rollback that does not count as activity (mutant).
RestRelease_untouched(c, k) ==
    /\ pending = NoOp
    /\ IF scope # "Transactional" \/ ~connected \/ lockCount = 0
       THEN Return(c, "ok", "none") /\ Counted(c, "ok")
       ELSE Dispatch(c, k) /\ UNCHANGED history
    /\ UNCHANGED <<session, config, supervisor, sweep, now, aux>>
    /\ UNCHANGED world

\* commit/rollback: a no-op success when there is nothing to release; as every
\* successful operation on a live session it counts as activity.
RestRelease(c, k) ==
    /\ pending = NoOp
    /\ IF scope # "Transactional" \/ ~connected \/ lockCount = 0
       THEN /\ Return(c, "ok", "none") /\ Counted(c, "ok")
            /\ lastActivityAt' = IF connected /\ scope # "Stateless"
                                  THEN now ELSE lastActivityAt
       ELSE Dispatch(c, k) /\ UNCHANGED <<history, lastActivityAt>>
    /\ UNCHANGED <<scope, connected, handle, lockCount, maxlocks, limits>>
    /\ UNCHANGED <<config, supervisor, sweep, now, aux>>
    /\ UNCHANGED world

RestCommit(c) == RestRelease(c, "commit")
RestRollback(c) == RestRelease(c, "rollback")

(* ------------- session engine: completion of the transport call ------- *)
ConnectDone(o, h) ==
    /\ pending.kind = "connect"
    /\ IF o = "ok"
       THEN /\ connected' = TRUE
            /\ handle' = IF scope = "Stateless" THEN NoHandle ELSE h
            /\ lockCount' = 0
            /\ lastActivityAt' = now
            /\ supervisor' = (scope # "Stateless")
            /\ Discard
            /\ UNCHANGED <<scope, maxlocks, limits>>
       ELSE ClearSession
    /\ Return(pending.call, o, o)
    /\ Counted(pending.call, o)
    /\ timer' = 0
    /\ lost' = (lost /\ o # "ok")
    /\ UNCHANGED <<config, now, orphan, skippedAt>>
    /\ UNCHANGED world

\* The Session was cleared when disconnect was called: whatever the backend
\* answers, disconnect succeeds.
DisconnectDone(o) ==
    /\ pending.kind = "disconnect"
    /\ Return(pending.call, "ok", o)
    /\ Counted(pending.call, "ok")
    /\ UNCHANGED <<session, config, supervisor, sweep, now, aux>>
    /\ UNCHANGED world

\* The backend's part of a data request that went through (st = "ok"): a batch
\* applies its statements one by one and answers each, whether or not the
\* others failed; a script is applied as a whole.
Good(items) == {i \in 1..Len(items) : items[i] = "good"}

Answered(st) ==
    IF st = "ok" /\ pending.kind = "batch"
    THEN /\ response' = [i \in 1..Len(sent.items) |->
                             IF sent.items[i] = "good" THEN "ok" ELSE "failed"]
         /\ store' = store + Cardinality(Good(sent.items))
    ELSE IF st = "ok" /\ pending.kind = "script"
    THEN /\ response' = <<>>
         /\ store' = store + Len(sent.items)
    ELSE UNCHANGED backend

\* A completion that writes the lock count it read at dispatch, plus one (mutant).
DataDone_stale(o) ==
    /\ pending.kind \in DataOps
    /\ LET st == IF connected THEN o ELSE "SessionLost"
       IN  /\ IF ~connected \/ st = "Rejected"
              THEN UNCHANGED <<session, supervisor, sweep>>
              ELSE IF st = "ok"
              THEN /\ lastActivityAt' = now
                   /\ lockCount' = IF scope = "Transactional"
                                   THEN pending.seen + 1 ELSE lockCount
                   /\ UNCHANGED <<scope, connected, handle, maxlocks, limits, supervisor,
                                  sweep>>
              ELSE ClearSession
           /\ Return(pending.call, st, o)
           /\ Counted(pending.call, st)
           /\ Answered(st)
    /\ UNCHANGED <<config, now, aux, instances, maps, reported, http, ui>>

DataDone(o) ==
    /\ pending.kind \in DataOps
    /\ LET st == IF connected THEN o ELSE "SessionLost"
       IN  /\ IF ~connected \/ st = "Rejected"
              THEN UNCHANGED <<session, supervisor, sweep>>
              ELSE IF st = "ok"
              THEN /\ lastActivityAt' = now
                   /\ lockCount' = IF scope = "Transactional"
                                   THEN lockCount + 1 ELSE lockCount
                   /\ UNCHANGED <<scope, connected, handle, maxlocks, limits, supervisor,
                                  sweep>>
              ELSE ClearSession
           /\ Return(pending.call, st, o)
           /\ Counted(pending.call, st)
           /\ Answered(st)
    /\ UNCHANGED <<config, now, aux, instances, maps, reported, http, ui>>

ReleaseDone(o) ==
    /\ pending.kind \in {"commit", "rollback"}
    /\ IF ~connected
       THEN UNCHANGED <<session, supervisor, sweep>>
       ELSE IF o = "ok"
       THEN /\ lockCount' = 0
            /\ lastActivityAt' = now
            /\ UNCHANGED <<scope, connected, handle, maxlocks, limits, supervisor,
                                  sweep>>
       ELSE ClearSession
    /\ Return(pending.call, o, o)
    /\ Counted(pending.call, o)
    /\ UNCHANGED <<config, now, aux>>
    /\ UNCHANGED world

\* disconnect called while another operation of the caller is in flight: that
\* operation is left to complete, but the session it belonged to has ended.
RestDisconnectDuring(c) ==
    /\ pending # NoOp /\ orphan \in {"none", "discarded"}
    /\ orphan' = pending.kind
    /\ ClearSession
    /\ IF handle # NoHandle
       THEN Dispatch(c, "disconnect") /\ UNCHANGED history
       ELSE Return(c, "ok", "none") /\ Counted(c, "ok")
    /\ UNCHANGED <<config, now, timer, lost, skippedAt>>
    /\ UNCHANGED world

\* The transport call of the orphaned operation returns: its answer is discarded.
OrphanDone(o) ==
    /\ orphan \notin {"none", "discarded"}
    /\ orphan' = "discarded"
    /\ UNCHANGED <<session, config, supervisor, sweep, now, pending, result, history,
                   timer, lost, skippedAt>>
    /\ UNCHANGED <<world, sent>>

(* ------------------- session engine: plain properties ----------------- *)
\* conn$.locks = locks and conn$.scope = scope: stores into the Session.
RestSetLocks(locks) ==
    /\ pending = NoOp
    /\ lockCount' = locks
    /\ adjusted' = (adjusted \/ locks # lockCount)
    /\ UNCHANGED <<scope, connected, handle, lastActivityAt, maxlocks, limits, config,
                   supervisor, sweep, now, pending, result, acquired, aux>>
    /\ UNCHANGED <<world, sent>>

RestSetScope(s) ==
    /\ pending = NoOp
    /\ scope' = s
    /\ UNCHANGED <<connected, handle, lockCount, lastActivityAt, maxlocks, limits, config,
                   supervisor, sweep, now, pending, result, history, aux>>
    /\ UNCHANGED <<world, sent>>

\* RestConnection.MAXLOCKS = timeout: a non-positive value is rejected; the
\* new default applies to sessions created afterwards.
RestSetMAXLOCKS(timeout) ==
    /\ MAXLOCKS' = IF timeout > 0 THEN timeout ELSE MAXLOCKS
    /\ rejected' = (timeout <= 0)
    /\ UNCHANGED <<session, timeouts, supervisor, sweep, now, pending, result, history,
                   aux>>
    /\ UNCHANGED <<world, sent>>

\* A timeout stored whatever its value (mutant).
RestSetTimeout_unchecked(name, timeout) ==
    /\ timeouts' = [timeouts EXCEPT ![name] = timeout]
    /\ rejected' = (timeout <= 0)
    /\ UNCHANGED <<session, MAXLOCKS, supervisor, sweep, now, pending, result, history,
                   aux>>
    /\ UNCHANGED <<world, sent>>

\* RestConnection.TRXTIMEOUT, LOCKINSPECT, CONNTIMEOUT = timeout, likewise.
RestSetTimeout(name, timeout) ==
    /\ timeouts' = IF timeout > 0 THEN [timeouts EXCEPT ![name] = timeout] ELSE timeouts
    /\ rejected' = (timeout <= 0)
    /\ UNCHANGED <<session, MAXLOCKS, supervisor, sweep, now, pending, result, history,
                   aux>>
    /\ UNCHANGED <<world, sent>>

RestSetTRXTIMEOUT(timeout) == RestSetTimeout("TRXTIMEOUT", timeout)
RestSetLOCKINSPECT(timeout) == RestSetTimeout("LOCKINSPECT", timeout)
RestSetCONNTIMEOUT(timeout) == RestSetTimeout("CONNTIMEOUT", timeout)

\* new RestConnection(url): a new Session, created with the limits as they are
\* configured now; what is still in flight belongs to the session it replaces.
RestConstruct(s) ==
    /\ pending = NoOp
    /\ scope' = s
    /\ maxlocks' = MAXLOCKS
    /\ limits' = timeouts
    /\ connected' = FALSE
    /\ handle' = NoHandle
    /\ lockCount' = 0
    /\ supervisor' = FALSE
    /\ Discard
    /\ lastActivityAt' = now
    /\ result' = NoResult
    /\ acquired' = 0 /\ adjusted' = FALSE /\ lost' = FALSE
    /\ UNCHANGED <<config, now, pending, timer, orphan, skippedAt>>
    /\ UNCHANGED <<world, sent>>

(* --------------- session engine: attribute and client-info maps ------- *)
Put(map, name, value) == {e \in map : e[1] # name} \cup {<<name, value>>}
Drop(map, name) == {e \in map : e[1] # name}

\* The maps as the caller's call c(name, value) makes them.
Edited(c, name, value) ==
    IF c = "addAttribute"
    THEN [wanted EXCEPT !.attributes = Put(@, name, value)]
    ELSE IF c = "deleteAttribute"
    THEN [wanted EXCEPT !.attributes = Drop(@, name)]
    ELSE IF c = "addClientInfo"
    THEN [wanted EXCEPT !.clientinfo = Put(@, name, value)]
    ELSE [wanted EXCEPT !.clientinfo = Drop(@, name)]

\* A local edit of one of the two maps: nothing is sent.
EditMaps(c, name, value, a, i) ==
    /\ attributes' = a
    /\ clientinfo' = i
    /\ wanted' = Edited(c, name, value)
    /\ UNCHANGED <<session, config, supervisor, sweep, now, pending, result, history, aux,
                   instances, backend, reported, sent, http, ui>>

RestAddAttribute(c, name, value) ==
    EditMaps(c, name, value, Put(attributes, name, value), clientinfo)
RestDeleteAttribute(c, name) ==
    EditMaps(c, name, 0, Drop(attributes, name), clientinfo)
RestAddClientInfo(c, name, value) ==
    EditMaps(c, name, value, attributes, Put(clientinfo, name, value))
RestDeleteClientInfo(c, name) ==
    EditMaps(c, name, 0, attributes, Drop(clientinfo, name))

(* ------------------------ Lock/Timeout Supervisor --------------------- *)
idle == now - lastActivityAt

\* A tick that never applies the connection timeout (mutant).
StartSweep_without_conntimeout ==
    /\ supervisor /\ sweep = "idle"
    /\ connected /\ scope # "Stateless"
    /\ sweep' = IF scope = "Transactional" /\ idle > limits.TRXTIMEOUT
                THEN "rollback" ELSE "inspect"
    /\ UNCHANGED <<session, supervisor>>
    /\ UNCHANGED <<config, now, pending, result, history, orphan, lost>>
    /\ UNCHANGED <<world, sent>>

\* A tick that never applies the transaction timeout (mutant).
StartSweep_without_trxtimeout ==
    /\ supervisor /\ sweep = "idle"
    /\ connected /\ scope # "Stateless"
    /\ IF idle > limits.CONNTIMEOUT
       THEN Cleared /\ sweep' = "disconnect"
       ELSE sweep' = "inspect" /\ UNCHANGED <<session, supervisor>>
    /\ UNCHANGED <<config, now, pending, result, history, orphan, lost>>
    /\ UNCHANGED <<world, sent>>

\* A timer tick: skipped while a sweep is in flight; runs only for a connected
\* session that is not Stateless.
StartSweep ==
    /\ supervisor /\ sweep = "idle"
    /\ connected /\ scope # "Stateless"
    /\ IF idle > limits.CONNTIMEOUT
       THEN Cleared /\ sweep' = "disconnect"
       ELSE /\ sweep' = IF scope = "Transactional" /\ idle > limits.TRXTIMEOUT
                        THEN "rollback" ELSE "inspect"
            /\ UNCHANGED <<session, supervisor>>
    /\ UNCHANGED <<config, now, pending, result, history, orphan, lost>>
    /\ UNCHANGED <<world, sent>>

\* The tick with its timing left open: a sweep may start at any moment.
SweepBegin == StartSweep /\ UNCHANGED <<timer, skippedAt>>

\* A sweep that adopts whatever lock count the backend reports (mutant).
SweepEnd_adopts(o, held) ==
    /\ sweep # "idle"
    /\ sweep' = "idle"
    /\ IF sweep \in {"stale", "disconnect"}
       THEN UNCHANGED <<session, supervisor>>
       ELSE IF o # "ok"
       THEN Cleared
       ELSE /\ lockCount' = IF sweep = "rollback" THEN 0 ELSE held
            /\ UNCHANGED <<scope, connected, handle, lastActivityAt, maxlocks, limits,
                           supervisor>>
    /\ adjusted' = (adjusted \/ lockCount' # lockCount)
    /\ lost' = (lost \/ (sweep = "inspect" /\ o # "ok"))
    /\ UNCHANGED <<config, now, pending, result, acquired, timer, orphan, skippedAt>>
    /\ UNCHANGED <<instances, maps, backend, sent, http, ui>>

\* The sweep's transport call returns o; held is the lock count the backend reports.
SweepEnd(o, held) ==
    /\ sweep # "idle"
    /\ sweep' = "idle"
    /\ IF sweep \in {"stale", "disconnect"}
       THEN UNCHANGED <<session, supervisor>>
       ELSE IF o # "ok"
       THEN Cleared
       ELSE /\ lockCount' = IF sweep = "rollback" THEN 0
                            ELSE IF held < lockCount THEN held ELSE lockCount
            /\ UNCHANGED <<scope, connected, handle, lastActivityAt, maxlocks, limits,
                           supervisor>>
    /\ adjusted' = (adjusted \/ lockCount' # lockCount)
    /\ lost' = (lost \/ (sweep = "inspect" /\ o # "ok"))
    /\ UNCHANGED <<config, now, pending, result, acquired, timer, orphan, skippedAt>>
    /\ UNCHANGED <<instances, maps, backend, sent, http, ui>>

SweepDone(o, held) == SweepEnd(o, held) /\ UNCHANGED reported

\* The same completion, with the answer kept for inspection.
SweepReported(o, held) ==
    /\ SweepEnd(o, held)
    /\ reported' = [sweep |-> sweep, outcome |-> o, held |-> held]

\* A timer tick that starts its sweep although one is in flight (mutant).
TimerFires_restarts ==
    /\ supervisor /\ timer >= limits.LOCKINSPECT
    /\ timer' = 0
    /\ connected /\ scope # "Stateless"
    /\ IF idle > limits.CONNTIMEOUT
       THEN Cleared /\ sweep' = "disconnect"
       ELSE /\ sweep' = IF scope = "Transactional" /\ idle > limits.TRXTIMEOUT
                        THEN "rollback" ELSE "inspect"
            /\ UNCHANGED <<session, supervisor>>
    /\ UNCHANGED <<config, now, pending, result, history, orphan, lost, skippedAt>>
    /\ UNCHANGED <<world, sent>>

\* The tick as the timer delivers it, every limits.LOCKINSPECT: a sweep is
\* started unless one is still in flight, and then the tick is dropped.
TimerFires ==
    /\ supervisor /\ timer >= limits.LOCKINSPECT
    /\ timer' = 0
    /\ IF sweep = "idle"
       THEN StartSweep /\ UNCHANGED skippedAt
       ELSE /\ skippedAt' = now
            /\ UNCHANGED <<session, config, supervisor, sweep, now, pending, result,
                           history, orphan, lost>>
    /\ UNCHANGED <<world, sent>>

\* The clock with the timer attached: time does not pass a due tick.
TimedTick ==
    /\ now < MaxTime + LOCKINSPECT
    /\ ~(supervisor /\ timer >= limits.LOCKINSPECT)
    /\ now' = now + 1
    /\ timer' = IF supervisor THEN timer + 1 ELSE 0
    /\ UNCHANGED <<session, config, supervisor, sweep, pending, result, history, orphan,
                   lost, skippedAt>>
    /\ UNCHANGED <<world, sent>>

Tick ==
    /\ now < MaxTime
    /\ now' = now + 1
    /\ UNCHANGED <<session, config, supervisor, sweep, pending, result, history, aux>>
    /\ UNCHANGED <<world, sent>>

\* connect() forwarded to a data operation.
connect_forwards_update == RestData("connect", "update")

\* batch() forwarded to script().
batch_forwards_script(stmts) == RestPayload("batch", "script", stmts)
\* script() forwarded to commit().
script_forwards_commit(steps) == RestCommit("script")
\* addClientInfo() forwarded to addAttribute().
addClientInfo_forwards_addAttribute(name, value) ==
    RestAddAttribute("addClientInfo", name, value)

\* insert() forwarded to rollback().
insert_forwards_rollback == RestRollback("insert")

(* ------------------ two DatabaseConnection instances ------------------ *)
\* Both instances forwarding to one and the same conn$ (mutant).
use_shared ==
    /\ active' = 3 - active
    /\ UNCHANGED <<session, config, supervisor, sweep, now, pending, result, history, aux,
                   peer, maps, sent, backend, reported, http, ui>>

\* The caller turns to its other DatabaseConnection: from here on the calls
\* go to that instance's own conn$.
use ==
    /\ active' = 3 - active
    /\ peer' = [scope |-> scope, connected |-> connected, handle |-> handle,
                lockCount |-> lockCount, lastActivityAt |-> lastActivityAt,
                supervisor |-> supervisor, sweep |-> sweep, pending |-> pending,
                result |-> result, acquired |-> acquired, adjusted |-> adjusted,
                lost |-> lost]
    /\ scope' = peer.scope
    /\ connected' = peer.connected
    /\ handle' = peer.handle
    /\ lockCount' = peer.lockCount
    /\ lastActivityAt' = peer.lastActivityAt
    /\ supervisor' = peer.supervisor
    /\ sweep' = peer.sweep
    /\ pending' = peer.pending
    /\ result' = peer.result
    /\ acquired' = peer.acquired
    /\ adjusted' = peer.adjusted
    /\ lost' = peer.lost
    /\ UNCHANGED <<maxlocks, limits, config, now, timer, orphan, skippedAt, maps, sent,
                   backend, reported, http, ui>>

(* ------------- forwarding slips of the facade (mutants) --------------- *)
\* update() forwarding to conn$.commit() instead of conn$.update().
update_forwards_commit == RestCommit("update")
\* insert() forwarding to conn$.commit() instead of conn$.insert().
insert_forwards_commit == RestCommit("insert")
\* commit() forwarding to conn$.disconnect() instead of conn$.commit().
commit_forwards_disconnect == RestDisconnect("commit")
\* rollback() forwarding to conn$.update() instead of conn$.rollback().
rollback_forwards_update == RestData("rollback", "update")
\* rollback() forwarding to conn$.disconnect() instead of conn$.rollback().
rollback_forwards_disconnect == RestDisconnect("rollback")
\* script() forwarding to conn$.connect() instead of conn$.script().
script_forwards_connect(steps) == RestConnect("script")
\* disconnect() forwarding to conn$.rollback() instead of conn$.disconnect().
disconnect_forwards_rollback == RestRollback("disconnect")
\* disconnect() forwarding to conn$.connect() instead of conn$.disconnect().
disconnect_forwards_connect == RestConnect("disconnect")
\* delete() forwarding to conn$.rollback() instead of conn$.delete().
delete_forwards_rollback == RestRollback("delete")
\* disconnect() forwarding to conn$.commit() instead of conn$.disconnect().
disconnect_forwards_commit == RestCommit("disconnect")
\* disconnect() forwarding to conn$.script() instead of conn$.disconnect().
disconnect_forwards_script == RestData("disconnect", "script")

(* --------------------- DatabaseConnection (facade) -------------------- *)
set_MAXLOCKS(timeout) == RestSetMAXLOCKS(timeout)
set_TRXTIMEOUT(timeout) == RestSetTRXTIMEOUT(timeout)
set_LOCKINSPECT(timeout) == RestSetLOCKINSPECT(timeout)
set_CONNTIMEOUT(timeout) == RestSetCONNTIMEOUT(timeout)
constructor == \E s \in ConnectionScope : RestConstruct(s)
set_locks(locks) == RestSetLocks(locks)
set_scope(s) == RestSetScope(s)
connect == RestConnect("connect")
disconnect == RestDisconnect("disconnect")
commit == RestCommit("commit")
rollback == RestRollback("rollback")
insert == RestData("insert", "insert")
update == RestData("update", "update")
delete == RestData("delete", "delete")
script(steps) == RestPayload("script", "script", steps)
batch(stmts) == RestPayload("batch", "batch", stmts)
addAttribute(name, value) == RestAddAttribute("addAttribute", name, value)
deleteAttribute(name) == RestDeleteAttribute("deleteAttribute", name)
addClientInfo(name, value) == RestAddClientInfo("addClientInfo", name, value)
deleteClientInfo(name) == RestDeleteClientInfo("deleteClientInfo", name)
\* disconnect(), called without awaiting the operation before it.
disconnect_during == RestDisconnectDuring("disconnect")

(* ------------------- Connection (basic HTTP connection) --------------- *)
\* The DatabaseConnection and its engine.
core == <<session, config, supervisor, sweep, now, pending, result, history, aux,
          instances, maps, backend, reported, sent>>
\* Everything but the HTTP Connection.
database == <<core, ui>>

\* The request as invoke hands it to fetch, having added n entries to the
\* FlightRecorder.
Fetching(r, raw, url, n) ==
    requests' = [requests EXCEPT ![r] = [NoRequest EXCEPT !.pc = "fetch", !.raw = raw,
                                                          !.endpoint = Endpoint(url),
                                                          !.logged = n]]

\* invoke without the reset of success$ (mutant).
invoke_keeps_flag(r, raw, url) ==
    /\ requests[r].pc = "idle"
    /\ IF EndsWith(Endpoint(url), Ping)
       THEN Fetching(r, raw, url, 0) /\ UNCHANGED flight
       ELSE Fetching(r, raw, url, 1) /\ flight' = Append(flight, Endpoint(url))
    /\ UNCHANGED success
    /\ UNCHANGED database

\* invoke adding to the FlightRecorder only after fetch was called (mutant).
invoke_records_late(r, raw, url) ==
    /\ requests[r].pc = "idle"
    /\ success' = TRUE
    /\ Fetching(r, raw, url, 0)
    /\ IF EndsWith(Endpoint(url), Ping)
       THEN UNCHANGED flight
       ELSE flight' = Append(flight, Endpoint(url))
    /\ UNCHANGED database

\* get/post/patch -> invoke, up to its first await: body = null, success$ = true,
\* the endpoint is added to the FlightRecorder unless it ends with "ping", and
\* the request is handed to fetch.
invoke(r, raw, url) ==
    /\ requests[r].pc = "idle"
    /\ success' = TRUE
    /\ IF EndsWith(Endpoint(url), Ping)
       THEN Fetching(r, raw, url, 0) /\ UNCHANGED flight
       ELSE Fetching(r, raw, url, 1) /\ flight' = Append(flight, Endpoint(url))
    /\ UNCHANGED database

\* fetch resolves with a response: the continuation of invoke is queued.
FetchResolves(r) ==
    /\ requests[r].pc = "fetch"
    /\ requests' = [requests EXCEPT ![r].pc = "resume", ![r].http = "response"]
    /\ UNCHANGED <<success, flight>>
    /\ UNCHANGED database

\* fetch rejects: the catch handler sets body and success$ = false; what is
\* awaited resolves with undefined.
FetchRejects(r) ==
    /\ requests[r].pc = "fetch"
    /\ success' = FALSE
    /\ UNCHANGED flight
    /\ requests' = [requests EXCEPT ![r].pc = "resume", ![r].rejected = TRUE,
                                    ![r].http = "undefined",
                                    ![r].body = IF requests[r].raw THEN "errmsg"
                                                ELSE "failure"]
    /\ UNCHANGED database

\* invoke continues after the await: if (this.success$) it reads the body of
\* http (a TypeError when http is undefined), otherwise it returns body.
Resume(r) ==
    /\ requests[r].pc = "resume"
    /\ requests' = [requests EXCEPT ![r] =
                       IF ~success THEN [@ EXCEPT !.pc = "done"]
                       ELSE IF @.http = "response" THEN [@ EXCEPT !.pc = "read"]
                       ELSE [@ EXCEPT !.pc = "done", !.body = "TypeError"]]
    /\ UNCHANGED <<success, flight>>
    /\ UNCHANGED database

\* http.text() or http.json() resolves: invoke returns the response's body.
BodyRead(r) ==
    /\ requests[r].pc = "read"
    /\ requests' = [requests EXCEPT ![r].pc = "done",
                                    ![r].body = IF requests[r].raw THEN "text" ELSE "json"]
    /\ UNCHANGED <<success, flight>>
    /\ UNCHANGED database

\* The caller has taken what invoke returned.
Taken(r) ==
    /\ requests[r].pc = "done"
    /\ requests' = [requests EXCEPT ![r] = NoRequest]
    /\ UNCHANGED <<success, flight>>
    /\ UNCHANGED database

\* No call of invoke is under way.
Quiet == \A r \in Requests : requests[r].pc \in {"idle", "done"}

(* --------------------------------- Form ------------------------------- *)
Pages == {"A", "B"}

\* Framework.prepare(page): the page as it is kept in the backing; no page
\* stays no page.
prepare(page) == page

\* !x, for the values a condition is given here.
Not(x) == x \in {"false", "null", "undefined"}

\* new Form(page): the backing is created and holds the prepared page.
Form(page) ==
    /\ ~form.backing /\ closing.pc \in {"idle", "done"}
    /\ form' = [NoForm EXCEPT !.backing = TRUE, !.page = prepare(page)]
    /\ closing' = NoClose
    /\ UNCHANGED <<core, http, widgets>>

\* The framework shows the form: it gets its view form and canvas, built from
\* the page; as a modal child it blocks its parent.
Shown(modal) ==
    /\ form.backing /\ ~form.view /\ closing.pc \in {"idle", "done"}
    /\ form' = [form EXCEPT !.view = TRUE, !.canvas = "open", !.blocks = form.page,
                            !.parent = IF modal THEN "blocked" ELSE "none"]
    /\ UNCHANGED closing
    /\ UNCHANGED <<core, http, widgets>>

\* The user edits a field: the form is valid or not.
Edited_form(ok) ==
    /\ form.view /\ closing.pc \in {"idle", "done"}
    /\ form.valid # ok
    /\ form' = [form EXCEPT !.valid = ok]
    /\ UNCHANGED closing
    /\ UNCHANGED <<core, http, widgets>>

\* Form.addEventListener: the handle is pushed on the backing's listeners.
Form_addEventListener ==
    /\ form.backing /\ closing.pc \in {"idle", "done"}
    /\ form.listeners < MaxListeners
    /\ form' = [form EXCEPT !.listeners = @ + 1]
    /\ UNCHANGED closing
    /\ UNCHANGED <<core, http, widgets>>

\* What this.validate() evaluates to in setView: validate is async, the call
\* is not awaited, so it is the promise.
validate == "Promise"

\* Form.setView(page).
setView(page) ==
    /\ form.backing /\ closing.pc \in {"idle", "done"}
    /\ form' =
         LET called == [form EXCEPT !.turn = ~form.turn, !.message = "none"]
             given == IF page = "null" THEN "" ELSE page
             replaced == [called EXCEPT !.page = prepare(given),
                                        !.blocks = prepare(given)]
         IN  IF page = "null" /\ form.page = "null"
             THEN called
             ELSE IF form.canvas = "none"
             THEN replaced
             ELSE IF Not(validate)
             THEN [called EXCEPT !.message = "warn FORM 2"]
             ELSE [replaced EXCEPT !.listeners = 0,
                                   !.message = IF form.listeners > 0 THEN "fine FORM 2"
                                               ELSE "none"]
    /\ UNCHANGED closing
    /\ UNCHANGED <<core, http, widgets>>

\* close() returns value v.
Returns(v) == closing' = [closing EXCEPT !.pc = "done", !.returned = v]

\* close raises its next event, or finishes: PostForm unless forced, else the
\* backing is removed and true is returned.
AfterParent(f) ==
    IF ~closing.force
    THEN /\ closing' = [closing EXCEPT !.pc = "PostForm", !.raised = @ \cup {"PostForm"}]
         /\ form' = f
    ELSE /\ form' = [f EXCEPT !.backing = FALSE, !.view = FALSE]
         /\ Returns("true")

\* close checking the event transaction whether forced or not (mutant).
close_checks_forced(force) ==
    /\ closing.pc \in {"idle", "done"}
    /\ closing' =
         LET call == [NoClose EXCEPT !.force = force, !.before = [canvas |-> form.canvas,
                                                              parent |-> form.parent,
                                                              backing |-> form.backing]]
         IN  IF ~form.view THEN [call EXCEPT !.pc = "done", !.returned = "true"]
             ELSE [call EXCEPT !.pc = "check"]
    /\ UNCHANGED form
    /\ UNCHANGED <<core, http, widgets>>

\* close(force), up to its first await.
close(force) ==
    /\ closing.pc \in {"idle", "done"}
    /\ closing' =
         LET call == [NoClose EXCEPT !.force = force, !.before = [canvas |-> form.canvas,
                                                              parent |-> form.parent,
                                                              backing |-> form.backing]]
         IN  IF ~form.view THEN [call EXCEPT !.pc = "done", !.returned = "true"]
             ELSE IF ~force THEN [call EXCEPT !.pc = "check"]
             ELSE [call EXCEPT !.pc = "clear"]
    /\ UNCHANGED form
    /\ UNCHANGED <<core, http, widgets>>

\* checkEventTransaction(OnCloseForm) answers ok; then OnCloseForm is raised.
TransactionChecked(ok) ==
    /\ closing.pc = "check"
    /\ IF ok
       THEN closing' = [closing EXCEPT !.pc = "OnCloseForm",
                                       !.raised = @ \cup {"OnCloseForm"}]
       ELSE Returns("false")
    /\ UNCHANGED form
    /\ UNCHANGED <<core, http, widgets>>

\* The listeners of OnCloseForm answer ok; then the form is cleared.
OnCloseFormRaised(ok) ==
    /\ closing.pc = "OnCloseForm"
    /\ IF ok
       THEN closing' = [closing EXCEPT !.pc = "clear"]
       ELSE Returns("false")
    /\ UNCHANGED form
    /\ UNCHANGED <<core, http, widgets>>

\* this.clear(force) answers ok; then the canvas is closed and, with a parent,
\* OnFormEnabled is raised on the parent.
FormCleared(ok) ==
    /\ closing.pc = "clear"
    /\ IF ~ok
       THEN /\ closing' = [closing EXCEPT !.pc = "done", !.returned = "false",
                                          !.cleared = "failed"]
            /\ UNCHANGED form
       ELSE IF form.parent # "none"
       THEN /\ closing' = [closing EXCEPT !.pc = "OnFormEnabled", !.cleared = "ok",
                                          !.raised = @ \cup {"OnFormEnabled"}]
            /\ form' = [form EXCEPT !.canvas = "closed"]
       ELSE /\ LET c == [closing EXCEPT !.cleared = "ok"]
                   f == [form EXCEPT !.canvas = "closed"]
               IN  IF ~closing.force
                   THEN /\ closing' = [c EXCEPT !.pc = "PostForm",
                                                !.raised = @ \cup {"PostForm"}]
                        /\ form' = f
                   ELSE /\ form' = [f EXCEPT !.backing = FALSE, !.view = FALSE]
                        /\ closing' = [c EXCEPT !.pc = "done", !.returned = "true"]
    /\ UNCHANGED <<core, http, widgets>>

\* OnFormEnabled was raised on the parent: the parent is unblocked and focused.
ParentEnabled ==
    /\ closing.pc = "OnFormEnabled"
    /\ AfterParent([form EXCEPT !.parent = "unblocked"])
    /\ UNCHANGED <<core, http, widgets>>

\* The listeners of PostForm answer ok; then the backing is removed and
\* PostCloseForm is raised.
PostFormRaised(ok) ==
    /\ closing.pc = "PostForm"
    /\ IF ok
       THEN /\ form' = [form EXCEPT !.backing = FALSE, !.view = FALSE]
            /\ closing' = [closing EXCEPT !.pc = "PostCloseForm",
                                          !.raised = @ \cup {"PostCloseForm"}]
       ELSE Returns("false") /\ UNCHANGED form
    /\ UNCHANGED <<core, http, widgets>>

\* The listeners of PostCloseForm answer ok: close returns it.
PostCloseFormRaised(ok) ==
    /\ closing.pc = "PostCloseForm"
    /\ Returns(IF ok THEN "true" ELSE "false")
    /\ UNCHANGED form
    /\ UNCHANGED <<core, http, widgets>>

Outcomes == {"ok", "TransportError", "SessionLost"}

\* Assignments to the facade's static limits.
Configuration ==
    \/ \E v \in 0..MaxLimit : set_MAXLOCKS(v)
    \/ \E v \in {-1, 0, TRXTIMEOUT, TRXTIMEOUT + 1} : set_TRXTIMEOUT(v)
    \/ \E v \in {-1, 0, LOCKINSPECT, LOCKINSPECT + 1} : set_LOCKINSPECT(v)
    \/ \E v \in {-1, 0, CONNTIMEOUT, CONNTIMEOUT + 1} : set_CONNTIMEOUT(v)

\* Assignments to the facade's public properties.
Assignments ==
    \/ \E n \in 0..(MaxLimit + 1) : set_locks(n)
    \/ \E s \in ConnectionScope : set_scope(s)

\* The facade's operations, their completions, the Supervisor and the clock.
Operations ==
    \/ connect
    \/ disconnect
    \/ commit
    \/ rollback
    \/ insert
    \/ update
    \/ delete
    \/ script(<<>>)
    \/ batch(<<>>)
    \/ \E o \in {"ok", "AuthenticationFailed", "TransportError"}, h \in Handles :
          ConnectDone(o, h)
    \/ \E o \in {"ok", "TransportError"} : DisconnectDone(o)
    \/ \E o \in Outcomes \cup {"Rejected"} : DataDone(o)
    \/ \E o \in Outcomes : ReleaseDone(o)
    \/ SweepBegin
    \/ \E o \in Outcomes, held \in 0..MaxLimit : SweepDone(o, held)
    \/ Tick

Next == Assignments \/ Operations

Spec == Init /\ [][Next]_vars

\* The completions of the transport calls.
Completions ==
    \/ \E o \in {"ok", "AuthenticationFailed", "TransportError"}, h \in Handles :
          ConnectDone(o, h)
    \/ \E o \in {"ok", "TransportError"} : DisconnectDone(o)
    \/ \E o \in Outcomes \cup {"Rejected"} : DataDone(o)
    \/ \E o \in Outcomes : ReleaseDone(o)
    \/ \E o \in Outcomes, held \in 0..MaxLimit : SweepDone(o, held)

Calls ==
    \/ connect
    \/ disconnect
    \/ commit
    \/ rollback
    \/ insert
    \/ update
    \/ delete
    \/ script(<<>>)
    \/ batch(<<>>)

\* The Supervisor on its timer: ticks every LOCKINSPECT, the clock bound to it.
Timed ==
    \/ Calls
    \/ Completions
    \/ TimerFires
    \/ TimedTick

SpecTimed == Init /\ [][Timed]_vars

\* The caller not awaiting its operations before disconnect().
Overlapping ==
    \/ Operations
    \/ disconnect_during
    \/ \E o \in Outcomes : OrphanDone(o)

SpecOverlap == Init /\ [][Overlapping]_vars

\* The process-wide limits as they are at start.
Defaults == [TRXTIMEOUT |-> TRXTIMEOUT, LOCKINSPECT |-> LOCKINSPECT,
             CONNTIMEOUT |-> CONNTIMEOUT]

\* How many of the four process-wide limits differ from their defaults.
Changed(m, t) ==
    Cardinality({n \in DOMAIN t : t[n] # Defaults[n]}) + (IF m # MaxLimit THEN 1 ELSE 0)

\* Limits reconfigured, one away from its default at a time, while
\* connections are created and used.
Configured ==
    \/ Configuration /\ Changed(MAXLOCKS', timeouts') <= 1
    \/ constructor
    \/ connect
    \/ update
    \/ \E o \in {"ok", "TransportError"}, h \in Handles : ConnectDone(o, h)
    \/ \E o \in {"ok", "Rejected"} : DataDone(o)
    \/ SweepBegin
    \/ \E o \in {"ok"}, held \in 0..MaxLimit : SweepDone(o, held)
    \/ Tick

SpecConfig == Init /\ [][Configured]_vars

\* Two connections used in turn, their transport calls and sweeps overlapping.
Paired ==
    \/ use
    \/ connect
    \/ disconnect
    \/ update
    \/ commit
    \/ \E o \in {"ok", "TransportError"}, h \in Handles : ConnectDone(o, h)
    \/ \E o \in {"ok"} : DisconnectDone(o)
    \/ \E o \in {"ok", "TransportError"} : DataDone(o)
    \/ \E o \in {"ok"} : ReleaseDone(o)
    \/ SweepBegin
    \/ \E o \in {"ok", "TransportError"}, held \in 0..MaxLimit : SweepDone(o, held)

SpecTwo == InitTwo /\ [][Paired]_vars

\* The calls that open, use and close a session, every transport call of
\* connect() answered in the end.
Connecting ==
    \/ connect
    \/ disconnect
    \/ update
    \/ commit
    \/ \E o \in {"ok", "AuthenticationFailed", "TransportError"}, h \in Handles :
          ConnectDone(o, h)
    \/ \E o \in {"ok"} : DisconnectDone(o)
    \/ \E o \in {"ok", "TransportError"} : DataDone(o)
    \/ \E o \in {"ok"} : ReleaseDone(o)
    \/ SweepBegin
    \/ \E o \in {"ok", "SessionLost"}, held \in 0..MaxLimit : SweepDone(o, held)

SpecFair ==
    /\ Init
    /\ [][Connecting]_vars
    /\ WF_vars(\E o \in {"ok", "AuthenticationFailed", "TransportError"}, h \in Handles :
                  ConnectDone(o, h))

\* Statement and step lists: each statement or step either applies or fails.
Lists == UNION {[1..n -> {"good", "bad"}] : n \in 0..MaxStmts}

\* Scripts and batches of every length sent through a session.
Payloads ==
    \/ connect
    \/ commit
    \/ \E steps \in Lists : script(steps)
    \/ \E stmts \in Lists : batch(stmts)
    \/ \E o \in {"ok"}, h \in Handles : ConnectDone(o, h)
    \/ \E o \in {"ok", "TransportError"} : DataDone(o)
    \/ \E o \in {"ok"} : ReleaseDone(o)

SpecPayload == Init /\ [][Payloads]_vars

\* Names and values of attributes and client info.
Names == {"module", "user"}
Values == {"v1", "v2"}

\* The attribute and client-info maps edited between requests.
Mapping ==
    \/ \E n \in Names, v \in Values : addAttribute(n, v)
    \/ \E n \in Names : deleteAttribute(n)
    \/ \E n \in Names, v \in Values : addClientInfo(n, v)
    \/ \E n \in Names : deleteClientInfo(n)
    \/ connect
    \/ update
    \/ \E o \in {"ok"}, h \in Handles : ConnectDone(o, h)
    \/ \E o \in {"ok"} : DataDone(o)

SpecMaps == Init /\ [][Mapping]_vars

\* A session under the Supervisor's sweeps, the backend's answers recorded.
Sweeping ==
    \/ connect
    \/ disconnect
    \/ update
    \/ commit
    \/ \E o \in {"ok"}, h \in Handles : ConnectDone(o, h)
    \/ \E o \in {"ok"} : DisconnectDone(o)
    \/ \E o \in {"ok", "TransportError"} : DataDone(o)
    \/ \E o \in {"ok"} : ReleaseDone(o)
    \/ SweepBegin
    \/ \E o \in Outcomes, held \in 0..(MaxLimit + 1) : SweepReported(o, held)
    \/ Tick

SpecSweeps == Init /\ [][Sweeping]_vars

\* Requests on one HTTP Connection, overlapping at will.
Requesting ==
    \/ \E r \in Requests, raw \in BOOLEAN : invoke(r, raw, Ping)
    \/ \E r \in Requests : FetchResolves(r)
    \/ \E r \in Requests : FetchRejects(r)
    \/ \E r \in Requests : Resume(r)
    \/ \E r \in Requests : BodyRead(r)
    \/ \E r \in Requests : Taken(r)

SpecHttp == Init /\ [][Requesting]_vars

\* Requests on one HTTP Connection, each awaited before the next is issued.
OneAtATime ==
    \/ \E r \in Requests, raw \in BOOLEAN : Quiet /\ invoke(r, raw, Ping)
    \/ \E r \in Requests : FetchResolves(r)
    \/ \E r \in Requests : FetchRejects(r)
    \/ \E r \in Requests : Resume(r)
    \/ \E r \in Requests : BodyRead(r)
    \/ \E r \in Requests : Taken(r)

SpecHttpSeq == Init /\ [][OneAtATime]_vars

\* Requests to every target on one HTTP Connection, each call of invoke
\* followed to its end.
Recording ==
    \/ \E r \in Requests, url \in Urls : invoke(r, FALSE, url)
    \/ \E r \in Requests : FetchResolves(r)
    \/ \E r \in Requests : FetchRejects(r)
    \/ \E r \in Requests : Resume(r)
    \/ \E r \in Requests : BodyRead(r)

SpecRecorder == Init /\ [][Recording]_vars

\* A form constructed, shown, edited and given new views.
Viewing ==
    \/ \E page \in Pages \cup {"null"} : Form(page)
    \/ \E modal \in {FALSE} : Shown(modal)
    \/ \E ok \in BOOLEAN : Edited_form(ok)
    \/ Form_addEventListener
    \/ \E page \in Pages \cup {"null"} : setView(page)

SpecView == Init /\ [][Viewing]_vars

\* A form constructed, shown and closed, each event answered either way.
Closing ==
    \/ \E page \in {"A"} : Form(page)
    \/ \E modal \in BOOLEAN : Shown(modal)
    \/ \E force \in BOOLEAN : close(force)
    \/ \E ok \in BOOLEAN : TransactionChecked(ok)
    \/ \E ok \in BOOLEAN : OnCloseFormRaised(ok)
    \/ \E ok \in BOOLEAN : FormCleared(ok)
    \/ ParentEnabled
    \/ \E ok \in BOOLEAN : PostFormRaised(ok)
    \/ \E ok \in BOOLEAN : PostCloseFormRaised(ok)

SpecClose == Init /\ [][Closing]_vars

(* -------------------------------- Block ------------------------------- *)
\* Names a block is constructed with, and String.toLowerCase on them.
BlockNames == {"Emp", "emp", "DEPT"}
toLowerCase(name) == CASE name = "Emp" -> "emp"
                       [] name = "emp" -> "emp"
                       [] name = "DEPT" -> "dept"

\* Events whose trigger may run in an event transaction on the block.
EventType == {"OnFetch", "WhenValidateField"}

\* An offset handed to getRecord: <<>> when the argument is left out.
Offsets == {<<>>} \cup {<<o>> : o \in -1 .. 1}

\* new Record(intrec), and null.
Record(intrec) == <<intrec>>
null == <<>>

\* ModelBlock.getRecord(offset): the record offset rows from the current one,
\* null outside the rows the block holds. Record i is the one in row i.
ModelBlock_getRecord(offset) ==
    IF block.row + offset \in 1 .. MaxRows THEN block.row + offset ELSE NoRecord

\* new Block(form, name).
Block(name) ==
    /\ block.name = "none"
    /\ block' = [NoBlock EXCEPT !.name = toLowerCase(name)]
    /\ UNCHANGED <<core, http, form, closing, props, listener>>

\* The user moves to another row; no trigger is running.
Navigated(row) ==
    /\ block.name # "none" /\ block.transaction = "none"
    /\ row # block.row
    /\ block' = [block EXCEPT !.row = row]
    /\ UNCHANGED <<core, http, form, closing, props, listener>>

\* A trigger starts: the event transaction holds the record the event is
\* about, which is a row of the block, a record not yet in it, or none.
TransactionStarted(event, record) ==
    /\ block.name # "none" /\ block.transaction = "none"
    /\ block' = [block EXCEPT !.transaction = event, !.record = record]
    /\ UNCHANGED <<core, http, form, closing, props, listener>>

\* The trigger is done.
TransactionEnded ==
    /\ block.transaction # "none"
    /\ block' = [block EXCEPT !.transaction = "none", !.record = NoRecord]
    /\ UNCHANGED <<core, http, form, closing, props, listener>>

\* getRecord reading the model block whenever the offset is 0 (mutant).
getRecord_reads_block(offset) ==
    /\ block.name # "none"
    /\ LET off == IF offset = <<>> THEN 0 ELSE offset[1]
           refused == block.transaction # "none" /\ off # 0
           intrec == ModelBlock_getRecord(off)
       IN  block' = [block EXCEPT
                !.offset = offset,
                !.turn = ~block.turn,
                !.message = IF refused
                            THEN <<"severe", "FRAMEWORK", "16", block.transaction>>
                            ELSE <<>>,
                !.returned = IF refused \/ intrec = NoRecord THEN null
                             ELSE Record(intrec)]
    /\ UNCHANGED <<core, http, form, closing, props, listener>>

\* Block.getRecord(offset).
getRecord(offset) ==
    /\ block.name # "none"
    /\ LET off == IF offset = <<>> THEN 0 ELSE offset[1]
           refused == block.transaction # "none" /\ off # 0
           intrec == IF block.transaction = "none" THEN ModelBlock_getRecord(off)
                     ELSE block.record
       IN  block' = [block EXCEPT
                !.offset = offset,
                !.turn = ~block.turn,
                !.message = IF refused
                            THEN <<"severe", "FRAMEWORK", "16", block.transaction>>
                            ELSE <<>>,
                !.returned = IF refused \/ intrec = NoRecord THEN null
                             ELSE Record(intrec)]
    /\ UNCHANGED <<core, http, form, closing, props, listener>>

\* An EventFilter as the caller builds it: the event type, and the block
\* property either absent or naming some other block.
EventFilter == [type : EventType, block : {"unset", "other"}]

\* What a caller hands over as filter: nothing, one filter, an array of them.
Filters ==
    {[kind |-> "undefined", own |-> [type |-> "unset", block |-> "unset"],
      elements |-> <<>>]}
    \cup {[kind |-> "object", own |-> f, elements |-> <<>>] : f \in EventFilter}
    \cup UNION {{[kind |-> "array", own |-> [type |-> "unset", block |-> "unset"],
                  elements |-> fs] : fs \in [1 .. n -> EventFilter]}
                : n \in 0 .. MaxFilters}

\* !filter: undefined is falsy, an object and an array (the empty one too) are not.
Missing(filter) == filter.kind = "undefined"

\* The filters FormEvents.addListener is handed: the elements of an array,
\* else the one object.
Handed(l) == IF l.kind = "array" THEN l.elements ELSE <<l.own>>

\* Block.addEventListener(method, filter): a missing filter becomes {}, the
\* property block is assigned on the object the variable refers to, and the
\* object is handed to FormEvents.addListener.
Block_addEventListener(filter) ==
    /\ block.name # "none"
    /\ listener.registered < MaxListeners
    /\ LET given == IF Missing(filter) THEN [filter EXCEPT !.kind = "object"]
                    ELSE filter
       IN  listener' = [registered |-> listener.registered + 1,
                        kind |-> given.kind,
                        own |-> [given.own EXCEPT !.block = block.name],
                        elements |-> given.elements]
    /\ UNCHANGED <<core, http, form, closing, block, props>>

\* A block on which listeners are registered.
Listening ==
    \/ \E name \in BlockNames : Block(name)
    \/ \E filter \in Filters : Block_addEventListener(filter)

SpecListener == Init /\ [][Listening]_vars

\* A block whose records are read inside and outside triggers.
Reading ==
    \/ \E name \in BlockNames : Block(name)
    \/ \E row \in 1 .. MaxRows : Navigated(row)
    \/ \E event \in EventType, record \in 0 .. MaxRows + 1 :
           TransactionStarted(event, record)
    \/ TransactionEnded
    \/ \E offset \in Offsets : getRecord(offset)

SpecBlock == Init /\ [][Reading]_vars

(* --------------------------- FieldProperties -------------------------- *)
DataType == {"string", "integer", "date"}
Tags == {"input", "span"}

\* What a setter leaves behind: the call, the object returned, the message.
Set(call, message) ==
    [props EXCEPT !.call = call, !.returned = "this", !.message = message,
                  !.turn = ~props.turn]

\* new FieldProperties(properties): the basic properties are copied.
FieldProperties(type, derived) ==
    /\ ~props.made
    /\ props' = [NoProperties EXCEPT !.made = TRUE, !.type = type, !.derived = derived]
    /\ UNCHANGED <<core, http, form, closing, block, listener>>

\* setTag(tag).
setTag(tag) ==
    /\ props.made
    /\ props' = [Set("setTag", <<>>) EXCEPT !.tag = tag]
    /\ UNCHANGED <<core, http, form, closing, block, listener>>

\* setType(_type): the severe message FIELD 1 with the tag, nothing assigned.
setType(type) ==
    /\ props.made
    /\ props' = Set("setType", <<"severe", "FIELD", "1", props.tag>>)
    /\ UNCHANGED <<core, http, form, closing, block, listener>>

\* setEnabled(flag).
setEnabled(flag) ==
    /\ props.made
    /\ props' = [Set("setEnabled", <<>>) EXCEPT !.enabled = flag]
    /\ UNCHANGED <<core, http, form, closing, block, listener>>

\* setReadOnly(flag).
setReadOnly(flag) ==
    /\ props.made
    /\ props' = [Set("setReadOnly", <<>>) EXCEPT !.readonly = flag]
    /\ UNCHANGED <<core, http, form, closing, block, listener>>

\* setDerived(flag): this.derived = flag.
setDerived(flag) ==
    /\ props.made
    /\ props' = [Set("setDerived", <<>>) EXCEPT !.derived = flag]
    /\ UNCHANGED <<core, http, form, closing, block, listener>>

\* A properties object constructed and changed through its setters.
Setting ==
    \/ \E type \in DataType, derived \in BOOLEAN : FieldProperties(type, derived)
    \/ \E tag \in Tags : setTag(tag)
    \/ \E type \in DataType : setType(type)
    \/ \E flag \in BOOLEAN : setEnabled(flag)
    \/ \E flag \in BOOLEAN : setReadOnly(flag)
    \/ \E flag \in BOOLEAN : setDerived(flag)

SpecProperties == Init /\ [][Setting]_vars

\* The connection used through its operations only: the scope is the one
\* configured before construction and `locks` is only read.
SpecNoAssign == Init /\ [][Operations]_vars

(* ============================== claims ================================= *)
Releases == {"commit", "rollback"}

\* This step is the facade call of one of the operations in ops: it either
\* dispatches the transport call or returns at once.
Called(ops) ==
    /\ pending = NoOp
    /\ \/ pending'.call \in ops
       \/ pending' = NoOp /\ result' # result /\ result'.call \in ops

\* This step is the return of one of the operations in ops.
Returned(ops) == result' # result /\ result'.call \in ops

\* C1: in every reachable state, lockCount > 0 implies scope == Transactional
\* and connected == true.
C1_LocksImplyTransactionalConnected ==
    lockCount > 0 => (scope = "Transactional" /\ connected)

\* C2: in every reachable state, lockCount does not exceed the MAXLOCKS
\* ceiling in force for the session.
C2_LockCountWithinCeiling == lockCount <= maxlocks

\* C3: in every reachable state, the session handle is present if and only if
\* scope != Stateless and connected == true.
C3_HandleIffStatefulConnected ==
    (handle # NoHandle) <=> (scope # "Stateless" /\ connected)

\* C4: a data operation called on a connected Transactional session whose
\* lockCount equals the ceiling returns at once with LockLimitExceeded, makes
\* no transport call and leaves every Session field unchanged.
C4_LockLimitFailsFast ==
    [][ (Called(DataOps) /\ connected /\ scope = "Transactional"
            /\ lockCount = maxlocks)
        => /\ pending' = NoOp
           /\ result'.status = "LockLimitExceeded"
           /\ result'.calls = 0
           /\ UNCHANGED <<session, supervisor, sweep>> ]_vars

\* C4 witness: the ceiling was reached by real acquisitions and the next data
\* operation was refused.
C4_Witness ==
    /\ result.call \in DataOps /\ result.status = "LockLimitExceeded"
    /\ result.calls = 0
    /\ connected /\ scope = "Transactional"
    /\ lockCount = maxlocks /\ acquired = maxlocks /\ ~adjusted

\* C5 (as claimed): on a connected Transactional session lockCount equals the
\* number of successful lock-acquiring operations since connect or the last
\* commit/rollback.
C5_LockCountEqualsAcquired ==
    (connected /\ scope = "Transactional") => lockCount = acquired

\* C5 (amended): the same, as long as no Supervisor sweep (inspection or
\* transaction timeout) lowered lockCount, and no assignment to `locks`
\* changed it, since connect or the last commit/rollback; operations that
\* fail are not counted and do not change it.
C5_LockCountEqualsAcquiredUnlessAdjusted ==
    (connected /\ scope = "Transactional" /\ ~adjusted) => lockCount = acquired

\* C5 witness: one lock acquired, then an operation the backend rejected.
C5_Witness ==
    /\ connected /\ scope = "Transactional" /\ ~adjusted
    /\ result.call \in DataOps /\ result.status = "Rejected"
    /\ acquired = 1 /\ lockCount = 1

C7_DataAfterDisconnectFails ==
    [][ (Called(DataOps) /\ result.after)
        => /\ ~connected
           /\ pending' = NoOp
           /\ result'.status = "NotConnected"
           /\ result'.calls = 0
           /\ UNCHANGED <<session, supervisor, sweep>> ]_vars

\* C7 witness: a data operation was refused after a disconnect.
C7_Witness ==
    /\ result.after /\ result.call \in DataOps
    /\ result.status = "NotConnected" /\ result.calls = 0
    /\ ~connected /\ scope = "Stateless"

\* C8: in Stateless scope commit() and rollback() return success at once,
\* make no transport call and leave the Session unchanged, connected or not.
C8_StatelessReleaseIsNoOp ==
    [][ (Called(Releases) /\ scope = "Stateless")
        => /\ pending' = NoOp
           /\ result'.status = "ok"
           /\ result'.calls = 0
           /\ UNCHANGED <<session, supervisor, sweep>> ]_vars

\* C8 witness: a commit returned on a connected Stateless session.
C8_Witness ==
    /\ result.call = "commit" /\ result.status = "ok" /\ result.calls = 0
    /\ scope = "Stateless" /\ connected

\* C9: commit() and rollback() fail only when their transport call failed,
\* never with NotConnected; called with nothing to release (lockCount = 0 or
\* not connected) they return success at once.
C9_ReleaseFailsOnlyOnTransport ==
    [][ /\ (Returned(Releases) /\ result'.status # "ok")
            => /\ result'.calls = 1
               /\ result'.transport \in {"TransportError", "SessionLost"}
               /\ result'.status = result'.transport
        /\ (Called(Releases) /\ (lockCount = 0 \/ ~connected))
            => (pending' = NoOp /\ result'.status = "ok") ]_vars

\* C9 witness: a rollback on a disconnected Transactional connection succeeded.
C9_Witness ==
    /\ result.call = "rollback" /\ result.status = "ok" /\ result.calls = 0
    /\ ~connected /\ scope = "Transactional"

\* C10: once disconnect() has returned it has succeeded, connected is false,
\* the handle is absent and the Supervisor is stopped, whatever the backend
\* answered to the notification.
C10_DisconnectAlwaysSucceeds ==
    result.call = "disconnect"
        => /\ result.status = "ok"
           /\ ~connected
           /\ handle = NoHandle
           /\ ~supervisor
           /\ sweep \in {"idle", "stale"}

\* C10 witness: disconnect returned although its backend call failed.
C10_Witness ==
    /\ result.call = "disconnect" /\ result.transport = "TransportError"
    /\ result.status = "ok" /\ ~connected /\ handle = NoHandle /\ ~supervisor

\* C11: disconnect() is idempotent: a disconnect() called directly after one
\* that returned succeeds at once, without a transport call and without an
\* error, and leaves the Session disconnected as it was (no handle, no locks,
\* the Supervisor stopped).
C11_DisconnectIsIdempotent ==
    [][ (Called({"disconnect"}) /\ result.call = "disconnect")
        => /\ pending' = NoOp
           /\ result'.status = "ok" /\ result'.calls = 0
           /\ ~connected' /\ handle' = NoHandle /\ lockCount' = 0 /\ ~supervisor'
           /\ UNCHANGED <<scope, connected, handle, lastActivityAt, maxlocks, limits,
                          supervisor>> ]_vars

\* C11 witness: the second of two disconnect() calls in a row has returned.
C11_Witness ==
    /\ result.call = "disconnect" /\ result.again
    /\ result.status = "ok" /\ result.calls = 0
    /\ ~connected /\ handle = NoHandle /\ lockCount = 0 /\ ~supervisor

\* C12 as stated: after an inspection sweep failed, every caller operation
\* (other than the connect() that ends the condition) fails with NotConnected.
C12_EveryOperationFailsAfterFailedSweep ==
    [][ (lost /\ Called(DataOps \cup Releases \cup {"disconnect"}))
        => (pending' = NoOp /\ result'.status = "NotConnected") ]_vars

\* C12: when an inspection sweep fails the Session is disconnected in that
\* very step, and stays so until a connect() succeeds; until then every data
\* operation fails with NotConnected without a transport call and without
\* touching the Session, while commit(), rollback() and disconnect() return
\* success at once.
C12_DataFailsAfterFailedSweep ==
    [][ /\ lost' => ~connected'
        /\ (lost /\ Called(DataOps))
            => /\ pending' = NoOp
               /\ result'.status = "NotConnected" /\ result'.calls = 0
               /\ UNCHANGED <<session, supervisor>>
        /\ (lost /\ Called(Releases \cup {"disconnect"}))
            => /\ pending' = NoOp
               /\ result'.status = "ok" /\ result'.calls = 0
               /\ ~connected' ]_vars

\* C12 witness: a data operation failed with NotConnected after a failed sweep.
C12_Witness ==
    /\ lost /\ ~connected
    /\ result.call \in DataOps /\ result.status = "NotConnected" /\ result.calls = 0

C15_OneSweepInFlight ==
    [][ /\ (sweep # "idle" /\ sweep' # sweep) => sweep' \in {"idle", "stale"}
        /\ (sweep = "idle" /\ sweep' # "idle")
            => (timer >= limits.LOCKINSPECT /\ timer' = 0)
        /\ (sweep # "idle" /\ supervisor /\ timer >= limits.LOCKINSPECT /\ timer' = 0
              /\ pending' = pending)
            => UNCHANGED <<session, supervisor, sweep>> ]_vars

\* C15 witness: a tick was just dropped because a sweep is in flight.
C15_Witness ==
    /\ sweep \in {"inspect", "rollback"} /\ supervisor /\ connected
    /\ skippedAt = now /\ timer = 0

\* C16: a sweep starts only for a connected session whose scope is not
\* Stateless and whose Supervisor is running: never in Stateless scope, before
\* a successful connect(), after disconnect() or after a forced disconnect.
C16_SweepOnlyWhileConnected ==
    [][ (sweep = "idle" /\ sweep' # "idle")
        => /\ connected /\ scope # "Stateless" /\ supervisor
           /\ ~result.after /\ ~lost ]_vars

\* C16 witness: a sweep is in flight for a connected session that is not Stateless.
C16_Witness ==
    /\ sweep \in {"inspect", "rollback"} /\ connected /\ supervisor
    /\ scope # "Stateless" /\ handle # NoHandle

\* C17: a lock-acquiring operation and a correcting sweep that overlap lose no
\* update: the operation's completion adds one to the lock count as it is
\* then (corrected or not), never to the count read at dispatch, and a sweep's
\* completion only lowers the count as it is then.
C17_NoLostLockUpdate ==
    [][ /\ (Returned(DataOps) /\ result'.status = "ok" /\ scope = "Transactional")
            => /\ lockCount' = lockCount + 1
               /\ lockCount' <= pending.seen + 1
        /\ (sweep \in {"inspect", "rollback"} /\ sweep' = "idle" /\ connected')
            => lockCount' <= lockCount ]_vars

\* C17 witness: a sweep lowered lockCount while a lock-acquiring operation,
\* dispatched at a higher count, is still in flight.
C17_Witness ==
    /\ pending.call \in DataOps /\ pending.seen > lockCount
    /\ connected /\ scope = "Transactional" /\ sweep = "idle" /\ adjusted

\* C18: a transport call that completes after disconnect() does not change the
\* Session: neither the call of an operation that was in flight when
\* disconnect() was called, nor a sweep's.
C18_LateCompletionChangesNothing ==
    [][ /\ (orphan \notin {"none", "discarded"} /\ orphan' = "discarded")
            => UNCHANGED <<session, supervisor>>
        /\ (sweep # "idle" /\ sweep' = "idle" /\ (result.after \/ sweep = "stale"))
            => UNCHANGED <<session, supervisor>> ]_vars

\* C18 witness: disconnect() returned at once while a connect() was in flight,
\* whose answer then arrived and was discarded.
C18_Witness ==
    /\ orphan = "discarded" /\ result.call = "disconnect" /\ result.calls = 0
    /\ result.status = "ok" /\ pending = NoOp
    /\ ~connected /\ handle = NoHandle /\ lockCount = 0 /\ ~supervisor

\* C19: assigning a non-positive value to MAXLOCKS, TRXTIMEOUT, LOCKINSPECT or
\* CONNTIMEOUT is refused and leaves every configured value as it was; the
\* configured values are always positive.
C19_NonPositiveLimitRejected ==
    [][ /\ (~rejected /\ rejected') => UNCHANGED <<MAXLOCKS, timeouts>>
        /\ (MAXLOCKS' # MAXLOCKS \/ timeouts' # timeouts) => ~rejected'
        /\ MAXLOCKS' > 0
        /\ \A n \in DOMAIN timeouts' : timeouts'[n] > 0 ]_vars

\* C19 witness: a non-positive assignment was refused after CONNTIMEOUT had
\* been reconfigured, and the reconfigured value is kept.
C19_Witness ==
    /\ rejected /\ timeouts.CONNTIMEOUT = CONNTIMEOUT + 1 /\ MAXLOCKS = MaxLimit

\* C20: changing the process-wide limits does not change the limits of the
\* session that exists; a session's limits are the process-wide ones at its
\* creation; the lock ceiling and the timeouts enforced are the session's.
C20_SessionKeepsItsLimits ==
    [][ /\ (MAXLOCKS' # MAXLOCKS \/ timeouts' # timeouts) => UNCHANGED <<maxlocks, limits>>
        /\ (maxlocks' # maxlocks \/ limits' # limits)
            => (maxlocks' = MAXLOCKS /\ limits' = timeouts /\ ~connected')
        /\ (Called(DataOps) /\ connected /\ scope = "Transactional")
            => ((pending' = NoOp /\ result'.status = "LockLimitExceeded")
                    <=> lockCount + 1 > maxlocks)
        /\ (sweep = "idle" /\ sweep' = "disconnect") => idle > limits.CONNTIMEOUT
        /\ (sweep = "idle" /\ sweep' = "rollback")
            => (idle > limits.TRXTIMEOUT /\ idle <= limits.CONNTIMEOUT)
        /\ (sweep = "idle" /\ sweep' = "inspect") => idle <= limits.CONNTIMEOUT ]_vars

\* C20 witness: the session enforces the ceiling it was created with although
\* the process-wide MAXLOCKS was lowered since.
C20_Witness ==
    /\ MAXLOCKS < maxlocks /\ lockCount = maxlocks
    /\ connected /\ scope = "Transactional"
    /\ result.call \in DataOps /\ result.status = "LockLimitExceeded"

\* The Session fields of the instance in use, of the other one, and of instance i.
Own == <<scope, connected, handle, lockCount>>
Other == <<peer.scope, peer.connected, peer.handle, peer.lockCount>>
Of(i) == IF i = active THEN Own ELSE Other

\* C21: two DatabaseConnection instances share no session state: a step of
\* one instance (a call, a completion, a sweep) leaves the other instance's
\* connected, handle, scope and lockCount as they are, and turning to the other
\* instance changes neither's.
C21_InstancesShareNoSession ==
    [][ IF active' = active
        THEN Other' = Other
        ELSE Of(1)' = Of(1) /\ Of(2)' = Of(2) ]_vars

\* C21 witness: the second instance holds a lock in a connected Transactional
\* session while the first one, in another scope, was connected and disconnected.
C21_Witness ==
    /\ active = 2 /\ connected /\ scope = "Transactional" /\ lockCount = 1
    /\ peer.scope = "Stateful" /\ ~peer.connected /\ peer.handle = NoHandle
    /\ peer.result.call = "disconnect" /\ peer.result.calls = 1


Rows == {"insert", "update", "delete"}

\* C23: an insert, update or delete that passes the scope check makes exactly
\* one transport call; when that call fails with TransportError or SessionLost
\* the operation returns a failed result, is not retried, and leaves the
\* session disconnected with the Supervisor stopped.
C23_RowOperationOneCall ==
    [][ /\ ( /\ Called(Rows) /\ connected
             /\ ~(scope = "Transactional" /\ lockCount + 1 > maxlocks) )
           => pending'.call \in Rows /\ pending'.kind = pending'.call
        /\ (Returned(Rows) /\ pending # NoOp)
           => /\ pending' = NoOp
              /\ result'.calls = 1
              /\ result'.call = pending.call
              /\ result'.status \in {"TransportError", "SessionLost"}
                 => ~connected' /\ ~supervisor' /\ handle' = NoHandle
        /\ (Returned(Rows) /\ pending = NoOp)
           => result'.calls = 0 /\ result'.status \in {"NotConnected", "LockLimitExceeded"}
      ]_vars

\* C23 witness: an insert in a connected Stateful session made its one
\* transport call, which failed with TransportError: the session is cleared.
C23_Witness ==
    /\ result.call = "insert" /\ result.status = "TransportError" /\ result.calls = 1
    /\ result.transport = "TransportError"
    /\ scope = "Stateful" /\ ~connected /\ ~supervisor /\ pending = NoOp


\* C24: batch(stmts) returns exactly one result per input statement, in input
\* order, for every statement list; when one statement fails the results of
\* the others are still returned and what was applied is not undone.
C24_BatchAnswersEachStatement ==
    [][ /\ (Returned({"batch"}) /\ result'.status = "ok")
           => /\ pending.kind = "batch"
              /\ Len(response') = Len(sent.items)
              /\ \A i \in 1..Len(sent.items) :
                    response'[i] = IF sent.items[i] = "good" THEN "ok" ELSE "failed"
              /\ store' = store + Cardinality({i \in 1..Len(response') :
                                                  response'[i] = "ok"})
        /\ store' >= store ]_vars

\* C24 witness: a batch of three statements, the second of which failed,
\* returned three results in order, and both good statements stay applied.
C24_Witness ==
    /\ result.call = "batch" /\ result.status = "ok"
    /\ sent.items = <<"good", "bad", "good">>
    /\ response = <<"ok", "failed", "ok">>
    /\ store = 2

\* C25: script(steps) is sent as exactly one transport call whatever the
\* number of steps, only while connected, and on success in Transactional
\* scope raises lockCount by exactly one per call, not by the number of steps.
C25_ScriptIsOneCall ==
    [][ /\ Called({"script"})
           => IF connected /\ ~(scope = "Transactional" /\ lockCount + 1 > maxlocks)
              THEN pending'.call = "script" /\ pending'.kind = "script"
              ELSE pending' = NoOp /\ result'.calls = 0 /\ result'.status # "ok"
        /\ (Returned({"script"}) /\ pending # NoOp)
           => result'.calls = 1 /\ pending' = NoOp
        /\ (Returned({"script"}) /\ result'.status = "ok")
           => /\ pending.kind = "script"
              /\ lockCount' = IF scope = "Transactional" THEN lockCount + 1 ELSE lockCount
      ]_vars

\* C25 witness: a script of three steps, the first script of a Transactional
\* session, returned after one transport call with lockCount 1.
C25_Witness ==
    /\ result.call = "script" /\ result.status = "ok" /\ result.calls = 1
    /\ Len(sent.items) = MaxStmts
    /\ scope = "Transactional" /\ connected /\ lockCount = 1 /\ acquired = 1


\* C26: addAttribute, deleteAttribute, addClientInfo and deleteClientInfo make
\* no transport call and change no Session field; the next outgoing request
\* carries exactly the attribute and client-info maps as they stand after all
\* the edits made before that request.
C26_MapEditsAreLocal ==
    [][ /\ (maps' # maps)
           => UNCHANGED <<session, supervisor, sweep, pending, result, sent>>
        /\ (pending = NoOp /\ pending' # NoOp)
           => /\ sent'.attributes = wanted.attributes
              /\ sent'.clientinfo = wanted.clientinfo
              /\ UNCHANGED maps ]_vars

\* C26 witness: an update in flight carries the maps as edited before it (an
\* attribute set, a client info set twice), while the maps were edited again
\* after the request went out.
C26_Witness ==
    /\ pending.kind = "update" /\ connected
    /\ sent.attributes = {<<"module", "v2">>}
    /\ sent.clientinfo = {<<"user", "v1">>, <<"module", "v1">>}
    /\ attributes = {} /\ clientinfo = {<<"user", "v2">>, <<"module", "v1">>}


\* C27: a successful inspection sweep never raises the client-side lockCount:
\* after the sweep lockCount equals the server-reported count when that is
\* lower than the client's count, and is unchanged otherwise.
C27_InspectionNeverRaisesLocks ==
    [][ (sweep = "inspect" /\ sweep' = "idle" /\ reported'.outcome = "ok")
        => /\ reported'.sweep = "inspect"
           /\ lockCount' <= lockCount
           /\ lockCount' = IF reported'.held < lockCount
                           THEN reported'.held ELSE lockCount ]_vars

\* C27 witness: with two locks held, an inspection sweep was answered with a
\* server-side count of one, and lockCount is one.
C27_Witness ==
    /\ reported = [sweep |-> "inspect", outcome |-> "ok", held |-> 1]
    /\ connected /\ scope = "Transactional" /\ acquired = 2 /\ lockCount = 1
    /\ sweep = "idle" /\ adjusted


AllOps == {"connect", "disconnect", "commit", "rollback"} \cup DataOps

\* C28: the Supervisor never disconnects a session for CONNTIMEOUT, and never
\* rolls it back for TRXTIMEOUT, while the caller's last successful operation
\* is more recent than the respective timeout: every successful caller
\* operation resets the idle clock (and nothing else does), and the
\* Supervisor's own sweeps do not.
C28_TimeoutsCountFromLastSuccess ==
    [][ /\ ( /\ Returned(AllOps) /\ result'.status = "ok"
             /\ connected' /\ scope' # "Stateless" )
           => lastActivityAt' = now
        /\ (lastActivityAt' # lastActivityAt)
           => /\ pending' = NoOp /\ result'.call \in AllOps /\ result'.status = "ok"
              /\ lastActivityAt' = now
        /\ (sweep = "idle" /\ sweep' = "disconnect")
           => now - lastActivityAt > limits.CONNTIMEOUT
        /\ (sweep = "idle" /\ sweep' = "rollback")
           => now - lastActivityAt > limits.TRXTIMEOUT
        /\ (sweep' # sweep /\ result' = result /\ pending' = pending)
           => lastActivityAt' = lastActivityAt ]_vars

\* C28 witness: the last successful operation, a commit with nothing to
\* release, returned at time 1; the rollback sweep starts only at time 3, when
\* the session has been idle for longer than TRXTIMEOUT.
C28_Witness ==
    /\ result.call = "commit" /\ result.status = "ok" /\ result.calls = 0
    /\ connected /\ scope = "Transactional"
    /\ lastActivityAt = 1 /\ now = 3 /\ sweep = "rollback"


\* C29: when two requests overlap on one HTTP Connection, each request's
\* returned body reflects only its own outcome: a request whose fetch
\* succeeded returns its parsed response (never null), and a request whose
\* fetch failed returns its error value and never reads a response body.
C29_EachRequestOwnOutcome ==
    \A r \in Requests :
        /\ requests[r].pc = "read" => ~requests[r].rejected
        /\ requests[r].pc = "done" =>
              requests[r].body = IF requests[r].rejected
                                 THEN (IF requests[r].raw THEN "errmsg" ELSE "failure")
                                 ELSE (IF requests[r].raw THEN "text" ELSE "json")

\* C30: for requests issued one at a time on an HTTP Connection, after a
\* request completes `success` is true exactly when that request's fetch did
\* not reject; the flag is reset to true at the start of every request and
\* stays as the last request left it until the next one starts.
C30_SuccessDescribesLastRequest ==
    [][ /\ \A r \in Requests :
              /\ (requests[r].pc = "idle" /\ requests'[r].pc # "idle") => success'
              /\ (requests[r].pc # "done" /\ requests'[r].pc = "done")
                 => (success' <=> ~requests'[r].rejected)
        /\ (Quiet /\ Quiet') => success' = success ]_vars

\* C30 witness: a request whose fetch rejected has completed, and the request
\* issued after it has completed with its response: success is true.
C30_Witness ==
    /\ requests[1].pc = "done" /\ requests[1].rejected /\ requests[1].body = "failure"
    /\ requests[2].pc = "done" /\ ~requests[2].rejected /\ requests[2].body = "json"
    /\ success


\* C31: a request whose fetch rejects does not throw to the caller: it
\* resolves to {success: false, message: <error>} (to the error itself when
\* raw is requested), `success` is false afterwards, and no response body is
\* read.
C31_RejectedFetchResolvesToError ==
    [][ \A r \in Requests :
           (requests[r].pc # "done" /\ requests'[r].pc = "done" /\ requests'[r].rejected)
           => /\ requests[r].pc = "resume"
              /\ requests'[r].body = IF requests'[r].raw THEN "errmsg" ELSE "failure"
              /\ ~success' ]_vars


\* C32: every request sent through the HTTP Connection is added to the
\* FlightRecorder exactly once, before it is dispatched, except requests whose
\* endpoint ends with "ping", which are never recorded; nothing else is added.
C32_RecordedOnceBeforeDispatch ==
    [][ /\ \A r \in Requests :
              (requests[r].pc = "idle" /\ requests'[r].pc = "fetch")
              => IF EndsWith(requests'[r].endpoint, Ping)
                 THEN flight' = flight /\ requests'[r].logged = 0
                 ELSE /\ flight' = Append(flight, requests'[r].endpoint)
                      /\ requests'[r].logged = 1
        /\ (\A r \in Requests : ~(requests[r].pc = "idle" /\ requests'[r].pc # "idle"))
           => flight' = flight ]_vars

\* C32 witness: a request to /ping and a request to /pings have both run to
\* their end; the FlightRecorder holds /pings and nothing else.
C32_Witness ==
    /\ requests[1].pc = "done" /\ requests[1].endpoint = Base \o Ping
    /\ requests[2].pc = "done" /\ requests[2].endpoint = Base \o Ping \o <<"s">>
    /\ flight = <<Base \o Ping \o <<"s">>>>


\* C33: Form.setView on a form that already has a canvas replaces the view
\* only when the form validates: if validation fails it issues the warning
\* FORM 2 and returns with the backing, the page, the blocks and the event
\* listeners unchanged.
C33_SetViewNeedsValidForm ==
    [][ (form'.turn # form.turn /\ form.canvas # "none" /\ ~form.valid)
        => /\ form'.message = "warn FORM 2"
           /\ form'.backing = form.backing
           /\ form'.page = form.page
           /\ form'.blocks = form.blocks
           /\ form'.listeners = form.listeners ]_vars


\* C34: whenever Form.close() returns false the form is still open and
\* unchanged: its canvas has not been closed, its parent has not been
\* unblocked, and its backing has not been removed, whichever of the checks
\* vetoed the close.
C34_VetoedCloseChangesNothing ==
    [][ (closing.pc # "done" /\ closing'.pc = "done" /\ closing'.returned = "false")
        => /\ form'.canvas = closing'.before.canvas
           /\ form'.parent = closing'.before.parent
           /\ form'.backing = closing'.before.backing ]_vars

Vetoes == {"OnCloseForm", "PostForm", "PostCloseForm"}

\* C35: Form.close(force = true) skips every veto point: it does not check
\* the event transaction and raises none of OnCloseForm, PostForm and
\* PostCloseForm, and it returns true and removes the form's backing whenever
\* clearing the form succeeds; an already closed form (no view form) returns
\* true without raising any event.
C35_ForcedCloseSkipsVetoes ==
    [][ /\ closing'.force
           => /\ closing'.pc \notin ({"check"} \cup Vetoes)
              /\ closing'.raised \cap Vetoes = {}
        /\ ( /\ closing.pc # "done" /\ closing'.pc = "done"
             /\ closing'.force /\ closing'.cleared = "ok" )
           => closing'.returned = "true" /\ ~form'.backing
        /\ ( /\ closing.pc \in {"idle", "done"} /\ closing'.pc # "idle"
             /\ closing' # closing /\ ~form.view )
           => /\ closing'.pc = "done" /\ closing'.returned = "true"
              /\ closing'.raised = {} /\ form' = form ]_vars

\* C35 witness: a forced close of a modal form has returned true: the canvas
\* is closed, the parent unblocked, the backing removed, and the only event
\* raised was OnFormEnabled on the parent.
C35_Witness ==
    /\ closing.pc = "done" /\ closing.force /\ closing.returned = "true"
    /\ closing.cleared = "ok" /\ closing.raised = {"OnFormEnabled"}
    /\ form.canvas = "closed" /\ form.parent = "unblocked" /\ ~form.backing


\* C36: while an event transaction is running on a block, Block.getRecord
\* returns only the transaction's current record: with an offset other than 0
\* it returns null and raises the severe message FRAMEWORK 16, with offset 0
\* (or none) it returns the event transaction's record rather than the model
\* block's; outside a transaction every offset is read from the model block.
C36_GetRecordInTransaction ==
    [][ block'.turn # block.turn
        => LET off == IF block'.offset = <<>> THEN 0 ELSE block'.offset[1]
               wrap(intrec) == IF intrec = NoRecord THEN null ELSE Record(intrec)
           IN  /\ block.transaction # "none" /\ off # 0
                  => /\ block'.returned = null
                     /\ block'.message
                          = <<"severe", "FRAMEWORK", "16", block.transaction>>
               /\ block.transaction # "none" /\ off = 0
                  => /\ block'.returned = wrap(block.record)
                     /\ block'.message = <<>>
               /\ block.transaction = "none"
                  => /\ block'.returned = wrap(ModelBlock_getRecord(off))
                     /\ block'.message = <<>> ]_vars

\* C36 witness: inside a trigger getRecord() has returned the transaction's
\* record, one the model block does not hold in any row.
C36_Witness ==
    /\ block.transaction # "none" /\ block.record = MaxRows + 1
    /\ block.offset \in {<<>>, <<0>>}
    /\ block.returned = Record(block.record) /\ block.message = <<>>


\* C37: FieldProperties.setType and FieldProperties.setDerived never change
\* the inherited value: after either call, for any argument, the datatype and
\* the derived flag of the properties object are what they were before, and
\* the object itself is returned.
C37_InheritedValuesKept ==
    [][ (props'.turn # props.turn /\ props'.call \in {"setType", "setDerived"})
        => /\ props'.type = props.type
           /\ props'.derived = props.derived
           /\ props'.returned = "this" ]_vars


\* C38: every listener registered through Block.addEventListener is
\* restricted to events of that block: for a missing filter, a single filter
\* and an array of filters alike, each filter handed to FormEvents.addListener
\* has its block set to the block's name.
C38_EachFilterNamesTheBlock ==
    listener.kind # "none"
    => \A i \in DOMAIN Handed(listener) : Handed(listener)[i].block = block.name

====
